---- MODULE Spec2Model ----
(***************************************************************************)
(* A model of SimpleVector<Type> (simple_vector.h) over ArrayPtr<Type>     *)
(* (array_ptr.h).  Type is instantiated as a type whose default            *)
(* constructor yields Type{} and whose move is a copy, such as             *)
(* struct { int x = 0; }, so that new Type[n] holds n elements Type{}.     *)
(*                                                                         *)
(* The heap is a map from addresses to arrays; address 0 is nullptr and an *)
(* empty array marks a free address (new Type[n] is only called with       *)
(* n > 0).  A SimpleVector object is a record of its three data members.   *)
(* Every member function is an operator from (object, heap, inputs) to a   *)
(* result record; the actions apply these operators to the named objects.  *)
(*                                                                         *)
(* An access outside the bounds of the array a pointer refers to, or       *)
(* through a pointer into a deleted array, is undefined behaviour: the     *)
(* result is flagged ub, the access itself has no modelled effect, and no  *)
(* operation is modelled after it.                                         *)
(***************************************************************************)
EXTENDS Integers, Sequences, FiniteSets, TLC

VARIABLES vec, heap, ub, last, caps, handle, given

vars == <<vec, heap, ub, last, caps, handle, given>>

(* ---- bounds ---- *)
(* the largest capacity an object is taken to *)
MaxCap == 2
(* the number of array elements the heap holds between operations *)
MaxHeap == 3
(* how far apart the allocator is taken to place two arrays *)
MaxGap == 1
(* the largest capacity of the single object of SpecGrowth *)
MaxGrowCap == 8

(* the objects *)
Names == {"a", "b"}
(* the ArrayPtr objects that are used on their own *)
Handles == {"p", "q"}
(* the element values passed in: Type{} and one other value *)
Val == {0, 1}
(* addresses: one array per object and one for a temporary *)
NumAddr == Cardinality(Names) + 1

(* Type{} *)
Default == 0
(* what a read outside every array yields: no element value *)
Indet == -1
(* nullptr *)
NullPtr == 0

Min(S) == CHOOSE x \in S : \A y \in S : x <= y

(* std::max *)
Max(x, y) == IF x >= y THEN x ELSE y

(* ---- ArrayPtr ---- *)

FreeAddrs(h) == {p \in DOMAIN h : h[p] = <<>>}

(* ArrayPtr(size_t size): nullptr for size 0, else new Type[size] *)
ArrayPtrNew(h, size) ==
  IF size = 0
    THEN [ptr |-> NullPtr, heap |-> h]
    ELSE LET p == Min(FreeAddrs(h))
         IN [ptr |-> p, heap |-> [h EXCEPT ![p] = [i \in 1..size |-> Default]]]

(* ~ArrayPtr: delete[] raw_ptr_ *)
ArrayPtrDelete(h, p) == IF p = NullPtr THEN h ELSE [h EXCEPT ![p] = <<>>]

(* the number of elements of the array raw_ptr_ refers to *)
BufLen(h, p) == IF p = NullPtr THEN 0 ELSE Len(h[p])

(* ArrayPtr::operator[] used to write: raw_ptr_[index] = v (index from 0) *)
Store(h, p, index, v) ==
  IF 0 <= index /\ index < BufLen(h, p) THEN [h EXCEPT ![p][index + 1] = v] ELSE h

(* ArrayPtr::operator[] used to read: raw_ptr_[index] *)
Load(h, p, index) ==
  IF 0 <= index /\ index < BufLen(h, p) THEN h[p][index + 1] ELSE Indet

(* ---- SimpleVector ---- *)

(* an object that is not constructed *)
NoVec == [alive |-> FALSE, size_ |-> 0, capacity_ |-> 0, items_ |-> NullPtr]

(* the result of a member function *)
Res(self, h, u, t, r) == [self |-> self, heap |-> h, ub |-> u, threw |-> t, ret |-> r]

(* SimpleVector() noexcept = default *)
DefaultCtor(h) ==
  Res([alive |-> TRUE, size_ |-> 0, capacity_ |-> 0, items_ |-> NullPtr], h, FALSE, FALSE, 0)

(* explicit SimpleVector(size_t size) *)
SizeCtor(h, size) ==
  LET a == ArrayPtrNew(h, size)
      filled == IF size = 0 THEN a.heap
                ELSE [a.heap EXCEPT ![a.ptr] = [i \in 1..size |-> Default]]
  IN Res([alive |-> TRUE, size_ |-> size, capacity_ |-> size, items_ |-> a.ptr],
         filled, FALSE, FALSE, 0)

(* SimpleVector(size_t size, const Type& value) *)
SizeValueCtor(h, size, value) ==
  LET a == ArrayPtrNew(h, size)
      filled == IF size = 0 THEN a.heap
                ELSE [a.heap EXCEPT ![a.ptr] = [i \in 1..size |-> value]]
  IN Res([alive |-> TRUE, size_ |-> size, capacity_ |-> size, items_ |-> a.ptr],
         filled, FALSE, FALSE, 0)

(* SimpleVector(std::initializer_list<Type> init) *)
InitListCtor(h, init) ==
  LET a == ArrayPtrNew(h, Len(init))
      filled == IF Len(init) = 0 THEN a.heap ELSE [a.heap EXCEPT ![a.ptr] = init]
  IN Res([alive |-> TRUE, size_ |-> Len(init), capacity_ |-> Len(init), items_ |-> a.ptr],
         filled, FALSE, FALSE, 0)

(* the live elements [begin(), end()) *)
Elems(v, h) == [i \in 1..v.size_ |-> Load(h, v.items_, i - 1)]

(* the assertion of operator[]: assert(index <= size_) *)
IndexAsserted(self, index) == index <= self.size_

(* operator[] read: items_[index] *)
Index(self, h, index) ==
  Res(self, h, ~(index < BufLen(h, self.items_)), FALSE, Load(h, self.items_, index))

(* operator[] assigned through: self[index] = value *)
IndexAssign(self, h, index, value) ==
  Res(self, Store(h, self.items_, index, value), ~(index < BufLen(h, self.items_)),
      FALSE, 0)

(* At with the test index > size_ in place of index >= size_ *)
AtOffByOne(self, h, index) ==
  IF index > self.size_
    THEN Res(self, h, FALSE, TRUE, Indet)
    ELSE Res(self, h, ~(index < BufLen(h, self.items_)), FALSE,
             Load(h, self.items_, index))

(* At (both overloads): throws std::out_of_range when index >= size_ *)
At(self, h, index) ==
  IF index >= self.size_
    THEN Res(self, h, FALSE, TRUE, Indet)
    ELSE Res(self, h, ~(index < BufLen(h, self.items_)), FALSE,
             Load(h, self.items_, index))

(* SimpleVector::swap: the two objects exchanged *)
SwapVec(x, y) ==
  [self |-> [x EXCEPT !.items_ = y.items_, !.size_ = y.size_, !.capacity_ = y.capacity_],
   other |-> [y EXCEPT !.items_ = x.items_, !.size_ = x.size_, !.capacity_ = x.capacity_]]

(* std::copy / std::move of the n elements at src[0..n) onto dst[0..n) *)
CopyInto(h, src, dst, n) ==
  IF dst = NullPtr THEN h
  ELSE [h EXCEPT ![dst] =
          [i \in 1..Len(h[dst]) |-> IF i <= n THEN Load(h, src, i - 1) ELSE h[dst][i]]]

(* the assignments p[i] = v for i in [from, to) *)
FillRange(h, p, from, to, v) ==
  IF p = NullPtr THEN h
  ELSE [h EXCEPT ![p] =
          [i \in 1..Len(h[p]) |-> IF from < i /\ i <= to THEN v ELSE h[p][i]]]

(* Clear that also gives up the capacity *)
ClearDropsCapacity(self, h) ==
  Res([self EXCEPT !.size_ = 0, !.capacity_ = 0], h, FALSE, FALSE, 0)

(* Clear *)
Clear(self, h) == Res([self EXCEPT !.size_ = 0], h, FALSE, FALSE, 0)

(* GrowthCapacity without the std::max: doubling alone *)
GrowthCapacityDoubling(capacity, new_size) == capacity * 2

(* GrowthCapacity without the doubling: the required size alone *)
GrowthCapacityExact(capacity, new_size) == new_size

(* the capacity Resize grows to: std::max(capacity_ * 2, new_size) *)
GrowthCapacity(capacity, new_size) == Max(capacity * 2, new_size)

(* Resize: the branch that reallocates; capacity_ is assigned before the   *)
(* temporary is constructed, so a failed allocation leaves it assigned     *)
ResizeGrow(self, h, new_size, allocOk) ==
  LET grown == [self EXCEPT !.capacity_ = GrowthCapacity(self.capacity_, new_size)]
  IN IF ~allocOk
       THEN Res(grown, h, FALSE, TRUE, 0)
       ELSE LET tmp == SizeCtor(h, grown.capacity_)
                moved == CopyInto(tmp.heap, grown.items_, tmp.self.items_, grown.size_)
                sw == SwapVec(grown, tmp.self)
                freed == ArrayPtrDelete(moved, sw.other.items_)
            IN Res([sw.self EXCEPT !.size_ = new_size], freed,
                   grown.size_ > BufLen(h, grown.items_), FALSE, 0)

(* Resize *)
Resize(self, h, new_size, allocOk) ==
  IF new_size = self.size_ THEN Res(self, h, FALSE, FALSE, 0)
  ELSE IF new_size < self.size_ THEN Res([self EXCEPT !.size_ = new_size], h, FALSE, FALSE, 0)
  ELSE IF new_size <= self.capacity_
    THEN Res([self EXCEPT !.size_ = new_size],
             FillRange(h, self.items_, self.size_, new_size, Default),
             new_size > BufLen(h, self.items_), FALSE, 0)
  ELSE ResizeGrow(self, h, new_size, allocOk)

(* the first statement of PushBack and Insert: ++size_ or Resize(size_ + 1) *)
GrowByOne(self, h, allocOk) ==
  IF self.size_ < self.capacity_
    THEN Res([self EXCEPT !.size_ = self.size_ + 1], h, FALSE, FALSE, 0)
    ELSE Resize(self, h, self.size_ + 1, allocOk)

(* PushBack (both overloads) *)
PushBack(self, h, item, allocOk) ==
  LET g == GrowByOne(self, h, allocOk)
  IN IF g.threw THEN g
     ELSE Res(g.self, Store(g.heap, g.self.items_, g.self.size_ - 1, item),
              g.ub \/ g.self.size_ > BufLen(g.heap, g.self.items_), FALSE, 0)

(* std::move_backward(&items_[index], end() - 1, end()) *)
MoveBackward(h, p, index, size) ==
  IF p = NullPtr THEN h
  ELSE [h EXCEPT ![p] =
          [i \in 1..Len(h[p]) |->
             IF index + 1 < i /\ i <= size THEN h[p][i - 1] ELSE h[p][i]]]

(* Insert (both overloads), pos == cbegin() + index on entry.  After the   *)
(* growth step the index is std::distance(cbegin(), pos) with the pos that *)
(* was passed in: when Resize has replaced the array, pos points into the  *)
(* deleted one and the distance is off by the displacement of the arrays.  *)
Insert(self, h, index, value, allocOk, displacement) ==
  IF index = self.size_
    THEN LET p == PushBack(self, h, value, allocOk)
         IN IF p.threw THEN p ELSE [p EXCEPT !.ret = p.self.size_ - 1]
    ELSE LET g == GrowByOne(self, h, allocOk)
             dangling == g.self.items_ # self.items_
             idx == IF dangling THEN index + displacement ELSE index
             inside == 0 <= idx /\ idx < g.self.size_
                         /\ g.self.size_ <= BufLen(g.heap, g.self.items_)
             shifted == MoveBackward(g.heap, g.self.items_, idx, g.self.size_)
         IN IF g.threw THEN g
            ELSE IF ~inside THEN Res(g.self, g.heap, TRUE, FALSE, idx)
            ELSE Res(g.self, Store(shifted, g.self.items_, idx, value),
                     g.ub \/ dangling, FALSE, idx)

(* the displacements old begin - new begin of two arrays that were live at *)
(* the same time: the arrays do not overlap                                *)
Displacements(oldLen, newLen) ==
  {newLen + g : g \in 0..MaxGap} \cup {-(oldLen + g) : g \in 0..MaxGap}

(* PopBack *)
PopBack(self, h) == Res([self EXCEPT !.size_ = self.size_ - 1], h, FALSE, FALSE, 0)

(* MoveDown without the std::move: no element is shifted *)
MoveDownNothing(h, p, index, size) == h

(* std::move(&items_[index + 1], end(), &items_[index]) *)
MoveDown(h, p, index, size) ==
  IF p = NullPtr THEN h
  ELSE [h EXCEPT ![p] =
          [i \in 1..Len(h[p]) |->
             IF index < i /\ i < size /\ i < Len(h[p]) THEN h[p][i + 1] ELSE h[p][i]]]

(* Erase, pos == cbegin() + index *)
Erase(self, h, index) ==
  Res([self EXCEPT !.size_ = self.size_ - 1],
      MoveDown(h, self.items_, index, self.size_),
      self.size_ > BufLen(h, self.items_), FALSE, index)

(* Reserve without the std::copy into the new array *)
ReserveWithoutCopy(self, h, new_capacity, allocOk) ==
  IF new_capacity > self.capacity_
    THEN IF ~allocOk THEN Res(self, h, FALSE, TRUE, 0)
         ELSE LET new_items == ArrayPtrNew(h, new_capacity)
              IN Res([self EXCEPT !.items_ = new_items.ptr, !.capacity_ = new_capacity],
                     ArrayPtrDelete(new_items.heap, self.items_), FALSE, FALSE, 0)
    ELSE Res(self, h, FALSE, FALSE, 0)

(* Reserve (the member function) *)
Reserve(self, h, new_capacity, allocOk) ==
  IF new_capacity > self.capacity_
    THEN IF ~allocOk THEN Res(self, h, FALSE, TRUE, 0)
         ELSE LET new_items == ArrayPtrNew(h, new_capacity)
                  copied == CopyInto(new_items.heap, self.items_, new_items.ptr, self.size_)
              IN Res([self EXCEPT !.items_ = new_items.ptr, !.capacity_ = new_capacity],
                     ArrayPtrDelete(copied, self.items_),
                     self.size_ > BufLen(h, self.items_), FALSE, 0)
    ELSE Res(self, h, FALSE, FALSE, 0)

(* ReserveCtor calling the free function Reserve, whose result is dropped *)
ReserveCtorDiscards(h, capacity_to_reserve, allocOk) == DefaultCtor(h)

(* explicit SimpleVector(ReserveProxyObj obj): inside the class the name   *)
(* Reserve is the member function, called on the default-initialized       *)
(* members                                                                 *)
ReserveCtor(h, capacity_to_reserve, allocOk) ==
  Reserve(DefaultCtor(h).self, h, capacity_to_reserve, allocOk)

(* SimpleVector(const SimpleVector& other) *)
CopyCtor(other, h) ==
  LET a == ArrayPtrNew(h, other.size_)
  IN Res([alive |-> TRUE, size_ |-> other.size_, capacity_ |-> other.capacity_,
          items_ |-> a.ptr],
         CopyInto(a.heap, other.items_, a.ptr, other.size_),
         other.size_ > BufLen(h, other.items_), FALSE, 0)

(* MoveCtor without the std::exchange on capacity_ *)
MoveCtorKeepsCapacity(other) ==
  [self |-> [alive |-> TRUE, size_ |-> other.size_, capacity_ |-> other.capacity_,
             items_ |-> other.items_],
   other |-> [other EXCEPT !.size_ = 0, !.items_ = NullPtr]]

(* SimpleVector(SimpleVector&& other): the new object and what is left of  *)
(* other                                                                   *)
MoveCtor(other) ==
  [self |-> [alive |-> TRUE, size_ |-> other.size_, capacity_ |-> other.capacity_,
             items_ |-> other.items_],
   other |-> [other EXCEPT !.size_ = 0, !.capacity_ = 0, !.items_ = NullPtr]]

(* operator== *)
Equal(lhs, rhs, h) ==
  /\ lhs.size_ = rhs.size_
  /\ \A i \in 0..(lhs.size_ - 1) : Load(h, lhs.items_, i) = Load(h, rhs.items_, i)

(* operator!= *)
NotEqual(lhs, rhs, h) == ~Equal(lhs, rhs, h)

(* std::lexicographical_compare from element i on: the first pair of       *)
(* elements that differ decides; when one range ends, the shorter is less  *)
RECURSIVE LexCompare(_, _, _, _)
LexCompare(lhs, rhs, h, i) ==
  IF i = lhs.size_ \/ i = rhs.size_ THEN i = lhs.size_ /\ i # rhs.size_
  ELSE IF Load(h, lhs.items_, i) < Load(h, rhs.items_, i) THEN TRUE
  ELSE IF Load(h, rhs.items_, i) < Load(h, lhs.items_, i) THEN FALSE
  ELSE LexCompare(lhs, rhs, h, i + 1)

(* operator< that never reports a range that has ended as less *)
LessWithoutPrefix(lhs, rhs, h) ==
  LexCompare(lhs, rhs, h, 0) /\ lhs.size_ >= rhs.size_

(* operator< *)
Less(lhs, rhs, h) == LexCompare(lhs, rhs, h, 0)

(* operator<= *)
LessEq(lhs, rhs, h) == ~Less(rhs, lhs, h)

(* operator> *)
Greater(lhs, rhs, h) == ~LessEq(lhs, rhs, h)

(* operator>= *)
GreaterEq(lhs, rhs, h) == ~Less(lhs, rhs, h)

(* operator=(SimpleVector&& rhs): self, rhs and the heap afterwards *)
MoveAssign(self, rhs, h) ==
  IF NotEqual(self, rhs, h)
    THEN LET m == MoveCtor(rhs)
             sw == SwapVec(self, m.self)
         IN [self |-> sw.self, other |-> m.other,
             heap |-> ArrayPtrDelete(h, sw.other.items_), ub |-> FALSE, threw |-> FALSE]
    ELSE [self |-> self, other |-> rhs, heap |-> h, ub |-> FALSE, threw |-> FALSE]

(* operator=(const SimpleVector& rhs) *)
CopyAssign(self, rhs, h, allocOk) ==
  IF NotEqual(self, rhs, h)
    THEN IF ~allocOk
           THEN [self |-> self, other |-> rhs, heap |-> h, ub |-> FALSE, threw |-> TRUE]
           ELSE LET tmp == CopyCtor(rhs, h)
                    sw == SwapVec(self, tmp.self)
                IN [self |-> sw.self, other |-> rhs,
                    heap |-> ArrayPtrDelete(tmp.heap, sw.other.items_),
                    ub |-> tmp.ub, threw |-> FALSE]
    ELSE [self |-> self, other |-> rhs, heap |-> h, ub |-> FALSE, threw |-> FALSE]

(* ---- the program: two SimpleVector objects and the heap ---- *)

(* the history of capacities is not followed *)
Untracked == <<-1>>

(* the operation that led to the current state: its name and whether it    *)
(* threw                                                                   *)
Note(op, tgt, threw) == [op |-> op, threw |-> threw]

(* capacities of "a" after each PushBack since it was default-constructed *)
CapsAfter(op, tgt, threw, newvec) ==
  IF caps = Untracked THEN Untracked
  ELSE IF op = "PushBack" /\ tgt = "a" /\ ~threw THEN Append(caps, newvec["a"].capacity_)
  ELSE Untracked

(* whether new Type[n] succeeds is the allocator's choice *)
AllocOutcomes(allocates) == IF allocates THEN BOOLEAN ELSE {TRUE}

(* all std::initializer_list<Type> of at most n elements *)
InitLists(n) == UNION {[1..k -> Val] : k \in 0..n}

(* the number of array elements on the heap *)
HeapUse(h) ==
  LET RECURSIVE Sum(_)
      Sum(p) == IF p = 0 THEN 0 ELSE Len(h[p]) + Sum(p - 1)
  IN Sum(NumAddr)

(* the bounds the two specifications explore within *)
MainBounds == [cap |-> MaxCap, heap |-> MaxHeap]
GrowBounds == [cap |-> MaxGrowCap, heap |-> MaxGrowCap]

(* Addresses carry no meaning but identity, and between operations only    *)
(* the items_ members hold any.  The state is kept up to a renaming of the *)
(* addresses: the array of "a" first, then that of "b", then any other.    *)
AddrOrder(v, h) ==
  LET live == {p \in DOMAIN h : h[p] # <<>>}
      pa == v["a"].items_
      pb == v["b"].items_
      first == IF pa \in live THEN <<pa>> ELSE <<>>
      second == IF pb \in live /\ pb # pa THEN <<pb>> ELSE <<>>
      RECURSIVE Rest(_)
      Rest(S) == IF S = {} THEN <<>> ELSE <<Min(S)>> \o Rest(S \ {Min(S)})
  IN first \o second \o Rest(live \ {pa, pb})

(* the address p is renamed to; a pointer to a deleted array stays one *)
Renamed(order, p) ==
  IF p = NullPtr THEN NullPtr
  ELSE IF \E i \in 1..Len(order) : order[i] = p
    THEN CHOOSE i \in 1..Len(order) : order[i] = p
    ELSE Len(order) + 1

CanonVec(v, h) ==
  LET order == AddrOrder(v, h)
  IN [x \in Names |-> [v[x] EXCEPT !.items_ = Renamed(order, v[x].items_)]]

CanonHeap(v, h) ==
  LET order == AddrOrder(v, h)
  IN [q \in DOMAIN h |-> IF q <= Len(order) THEN h[order[q]] ELSE <<>>]

(* an operation named op on object tgt ended with the objects newvec and   *)
(* the heap newheap                                                        *)
Commit(op, tgt, threw, newvec, newheap, newub, b) ==
  /\ HeapUse(newheap) <= b.heap
  /\ vec' = CanonVec(newvec, newheap)
  /\ heap' = CanonHeap(newvec, newheap)
  /\ ub' = newub
  /\ last' = Note(op, tgt, threw)
  /\ caps' = CapsAfter(op, tgt, threw, newvec)
  /\ UNCHANGED <<handle, given>>

(* a member function of object x ran with result r *)
Ran(op, x, r, b) ==
  Commit(op, x, r.threw, [vec EXCEPT ![x] = r.self], r.heap, r.ub, b)

(* a constructor of object x ran with result r; an exception leaves x      *)
(* unconstructed and the array, if any, released                           *)
Constructed(op, x, r, allocOk, b) ==
  IF allocOk
    THEN Commit(op, x, FALSE, [vec EXCEPT ![x] = r.self], r.heap, r.ub, b)
    ELSE Commit(op, x, TRUE, vec, heap, FALSE, b)

(* a two-object member function of x with argument y ran with result r *)
Ran2(op, x, y, r, b) ==
  Commit(op, x, r.threw, [vec EXCEPT ![x] = r.self, ![y] = r.other], r.heap, r.ub, b)

(* "a" default-constructed, "b" not yet constructed *)
InitObjects ==
  /\ vec = [x \in Names |-> IF x = "a" THEN DefaultCtor(<<>>).self ELSE NoVec]
  /\ heap = [p \in 1..NumAddr |-> <<>>]
  /\ ub = FALSE
  /\ last = Note("Init", "a", FALSE)
  /\ handle = [x \in Handles |-> [alive |-> FALSE, raw_ptr_ |-> NullPtr]]
  /\ given = {}

Init == InitObjects /\ caps = Untracked

DefaultCtorAct(x) ==
  /\ ~ub /\ ~vec[x].alive
  /\ Constructed("DefaultCtor", x, DefaultCtor(heap), TRUE, MainBounds)

SizeCtorAct(x, n, allocOk) ==
  /\ ~ub /\ ~vec[x].alive
  /\ Constructed("SizeCtor", x, SizeCtor(heap, n), allocOk, MainBounds)

SizeValueCtorAct(x, n, v, allocOk) ==
  /\ ~ub /\ ~vec[x].alive
  /\ Constructed("SizeValueCtor", x, SizeValueCtor(heap, n, v), allocOk, MainBounds)

InitListCtorAct(x, init, allocOk) ==
  /\ ~ub /\ ~vec[x].alive
  /\ Constructed("InitListCtor", x, InitListCtor(heap, init), allocOk, MainBounds)

ReserveCtorAct(x, n, allocOk) ==
  /\ ~ub /\ ~vec[x].alive
  /\ Constructed("ReserveCtor", x, ReserveCtor(heap, n, allocOk), allocOk, MainBounds)

CopyCtorAct(x, y, allocOk) ==
  /\ ~ub /\ ~vec[x].alive /\ vec[y].alive
  /\ Constructed("CopyCtor", x, CopyCtor(vec[y], heap), allocOk, MainBounds)

MoveCtorAct(x, y) ==
  /\ ~ub /\ ~vec[x].alive /\ vec[y].alive
  /\ LET m == MoveCtor(vec[y])
     IN Commit("MoveCtor", x, FALSE, [vec EXCEPT ![x] = m.self, ![y] = m.other], heap,
               FALSE, MainBounds)

(* ~SimpleVector: the implicit destructor destroys items_ *)
DtorAct(x) ==
  /\ ~ub /\ vec[x].alive
  /\ Commit("Dtor", x, FALSE, [vec EXCEPT ![x] = NoVec],
            ArrayPtrDelete(heap, vec[x].items_), FALSE, MainBounds)

MoveAssignAct(x, y) ==
  /\ ~ub /\ vec[x].alive /\ vec[y].alive
  /\ Ran2("MoveAssign", x, y, MoveAssign(vec[x], vec[y], heap), MainBounds)

CopyAssignAct(x, y, allocOk) ==
  /\ ~ub /\ vec[x].alive /\ vec[y].alive
  /\ Ran2("CopyAssign", x, y, CopyAssign(vec[x], vec[y], heap, allocOk), MainBounds)

SwapAct(x, y) ==
  /\ ~ub /\ vec[x].alive /\ vec[y].alive
  /\ LET sw == SwapVec(vec[x], vec[y])
     IN Ran2("swap", x, y, [self |-> sw.self, other |-> sw.other, heap |-> heap,
                            ub |-> FALSE, threw |-> FALSE], MainBounds)

ClearAct(x) ==
  /\ ~ub /\ vec[x].alive
  /\ Ran("Clear", x, Clear(vec[x], heap), MainBounds)

ResizeAct(x, n, allocOk, b) ==
  /\ ~ub /\ vec[x].alive
  /\ n > vec[x].capacity_ => GrowthCapacity(vec[x].capacity_, n) <= b.cap
  /\ Ran("Resize", x, Resize(vec[x], heap, n, allocOk), b)

PushBackAct(x, v, allocOk, b) ==
  /\ ~ub /\ vec[x].alive
  /\ vec[x].size_ >= vec[x].capacity_ =>
        GrowthCapacity(vec[x].capacity_, vec[x].size_ + 1) <= b.cap
  /\ Ran("PushBack", x, PushBack(vec[x], heap, v, allocOk), b)

(* Insert at pos == cbegin() + index, cbegin() <= pos <= cend() *)
InsertAct(x, index, v, allocOk, displacement, b) ==
  /\ ~ub /\ vec[x].alive
  /\ vec[x].size_ >= vec[x].capacity_ =>
        GrowthCapacity(vec[x].capacity_, vec[x].size_ + 1) <= b.cap
  /\ Ran("Insert", x, Insert(vec[x], heap, index, v, allocOk, displacement), b)

(* PopBack on a vector that is not empty *)
PopBackAct(x) ==
  /\ ~ub /\ vec[x].alive /\ vec[x].size_ > 0
  /\ Ran("PopBack", x, PopBack(vec[x], heap), MainBounds)

(* Erase at pos == cbegin() + index, cbegin() <= pos < cend() *)
EraseAct(x, index) ==
  /\ ~ub /\ vec[x].alive /\ index < vec[x].size_
  /\ Ran("Erase", x, Erase(vec[x], heap, index), MainBounds)

ReserveAct(x, n, allocOk) ==
  /\ ~ub /\ vec[x].alive
  /\ Ran("Reserve", x, Reserve(vec[x], heap, n, allocOk), MainBounds)

(* x[index] = v; the assertion of operator[] has passed *)
IndexAssignAct(x, index, v) ==
  /\ ~ub /\ vec[x].alive /\ IndexAsserted(vec[x], index)
  /\ Ran("operator[]", x, IndexAssign(vec[x], heap, index, v), MainBounds)

AtAct(x, index) ==
  /\ ~ub /\ vec[x].alive
  /\ Ran("At", x, At(vec[x], heap, index), MainBounds)

(* the six comparison operators applied to x and y: they read the elements *)
(* [0, size_) of both                                                      *)
CompareAct(x, y) ==
  /\ ~ub /\ vec[x].alive /\ vec[y].alive
  /\ Commit("Compare", x, FALSE, vec, heap,
            \E z \in {x, y} : vec[z].size_ > BufLen(heap, vec[z].items_), MainBounds)

(* x is full: PushBack and Insert reallocate *)
Full(x) == vec[x].size_ >= vec[x].capacity_

(* where the allocator may put the new array relative to the old one while *)
(* Insert at index grows x                                                 *)
InsertDisplacements(x, index) ==
  IF Full(x) /\ index < vec[x].size_
    THEN Displacements(BufLen(heap, vec[x].items_),
                       GrowthCapacity(vec[x].capacity_, vec[x].size_ + 1))
    ELSE {0}

Next ==
  \/ \E x \in Names : DefaultCtorAct(x)
  \/ \E x \in Names, n \in 0..MaxCap, ok \in BOOLEAN :
        (ok \/ n > 0) /\ SizeCtorAct(x, n, ok)
  \/ \E x \in Names, n \in 0..MaxCap, v \in Val, ok \in BOOLEAN :
        (ok \/ n > 0) /\ SizeValueCtorAct(x, n, v, ok)
  \/ \E x \in Names, init \in InitLists(MaxCap), ok \in BOOLEAN :
        (ok \/ Len(init) > 0) /\ InitListCtorAct(x, init, ok)
  \/ \E x \in Names, n \in 0..MaxCap, ok \in BOOLEAN :
        (ok \/ n > 0) /\ ReserveCtorAct(x, n, ok)
  \/ \E x \in Names, y \in Names, ok \in BOOLEAN :
        x # y /\ (ok \/ vec[y].size_ > 0) /\ CopyCtorAct(x, y, ok)
  \/ \E x \in Names, y \in Names : x # y /\ MoveCtorAct(x, y)
  \/ \E x \in Names : DtorAct(x)
  \/ \E x \in Names, y \in Names : x # y /\ MoveAssignAct(x, y)
  \/ \E x \in Names, y \in Names, ok \in BOOLEAN :
        /\ x # y
        /\ ok \/ (vec[y].size_ > 0 /\ NotEqual(vec[x], vec[y], heap))
        /\ CopyAssignAct(x, y, ok)
  \/ \E x \in Names, y \in Names : x # y /\ SwapAct(x, y)
  \/ \E x \in Names : ClearAct(x)
  \/ \E x \in Names, n \in 0..MaxCap, ok \in BOOLEAN :
        (ok \/ n > vec[x].capacity_) /\ ResizeAct(x, n, ok, MainBounds)
  \/ \E x \in Names, v \in Val : \E ok \in AllocOutcomes(Full(x)) :
        PushBackAct(x, v, ok, MainBounds)
  \/ \E x \in Names, v \in Val : \E i \in 0..vec[x].size_ :
        \E ok \in AllocOutcomes(Full(x)), d \in InsertDisplacements(x, i) :
           InsertAct(x, i, v, ok, d, MainBounds)
  \/ \E x \in Names : PopBackAct(x)
  \/ \E x \in Names : \E i \in 0..(vec[x].size_ - 1) : EraseAct(x, i)
  \/ \E x \in Names, n \in 0..MaxCap, ok \in BOOLEAN :
        (ok \/ n > vec[x].capacity_) /\ ReserveAct(x, n, ok)
  \/ \E x \in Names, v \in Val : \E i \in 0..vec[x].size_ : IndexAssignAct(x, i, v)
  \/ \E x \in Names : \E i \in 0..vec[x].capacity_ : AtAct(x, i)
  \/ \E x \in Names, y \in Names : CompareAct(x, y)

Spec == Init /\ [][Next]_vars

(* ---- one object grown from empty, with the capacities it passes through ---- *)

InitGrowth == InitObjects /\ caps = <<>>

NextGrowth ==
  \/ \E v \in Val : \E ok \in AllocOutcomes(Full("a")) : PushBackAct("a", v, ok, GrowBounds)
  \/ \E v \in Val : \E i \in 0..vec["a"].size_ :
        \E ok \in AllocOutcomes(Full("a")), d \in InsertDisplacements("a", i) :
           InsertAct("a", i, v, ok, d, GrowBounds)
  \/ \E n \in 0..MaxGrowCap, ok \in BOOLEAN :
        (ok \/ n > vec["a"].capacity_) /\ ResizeAct("a", n, ok, GrowBounds)

SpecGrowth == InitGrowth /\ [][NextGrowth]_vars

(* ---- ArrayPtr objects used on their own ---- *)
(* handle[x] is an ArrayPtr object named x: whether it is constructed and  *)
(* its raw_ptr_.  given holds the addresses Release has returned and the   *)
(* caller has not passed on to another ArrayPtr.                           *)

(* an ArrayPtr operation named op ended with the objects newhandle *)
Handled(op, threw, newhandle, newheap, newgiven, newub) ==
  /\ handle' = newhandle
  /\ heap' = newheap
  /\ given' = newgiven
  /\ ub' = newub
  /\ last' = Note(op, "", threw)
  /\ UNCHANGED <<vec, caps>>

(* ArrayPtr() = default *)
ArrayPtrDefaultAct(x) ==
  /\ ~ub /\ ~handle[x].alive
  /\ Handled("ArrayPtr()", FALSE,
             [handle EXCEPT ![x] = [alive |-> TRUE, raw_ptr_ |-> NullPtr]],
             heap, given, FALSE)

(* explicit ArrayPtr(size_t size); when new Type[size] throws no object is *)
(* constructed                                                             *)
ArrayPtrSizeAct(x, size, allocOk) ==
  /\ ~ub /\ ~handle[x].alive
  /\ size > 0 => FreeAddrs(heap) # {}
  /\ IF allocOk
       THEN LET a == ArrayPtrNew(heap, size)
            IN Handled("ArrayPtr(size_t)", FALSE,
                       [handle EXCEPT ![x] = [alive |-> TRUE, raw_ptr_ |-> a.ptr]],
                       a.heap, given, FALSE)
       ELSE Handled("ArrayPtr(size_t)", TRUE, handle, heap, given, FALSE)

(* explicit ArrayPtr(Type* raw_ptr), with nullptr or an address that       *)
(* Release has returned                                                    *)
ArrayPtrAdoptAct(x, raw_ptr) ==
  /\ ~ub /\ ~handle[x].alive
  /\ Handled("ArrayPtr(Type*)", FALSE,
             [handle EXCEPT ![x] = [alive |-> TRUE, raw_ptr_ |-> raw_ptr]],
             heap, given \ {raw_ptr}, FALSE)

(* ArrayPtr(ArrayPtr&& other) *)
ArrayPtrMoveCtorAct(x, other) ==
  /\ ~ub /\ ~handle[x].alive /\ handle[other].alive
  /\ Handled("ArrayPtr(ArrayPtr&&)", FALSE,
             [handle EXCEPT ![x] = [alive |-> TRUE, raw_ptr_ |-> handle[other].raw_ptr_],
                            ![other].raw_ptr_ = NullPtr],
             heap, given, FALSE)

(* operator=(ArrayPtr&& other):                                            *)
(* raw_ptr_ = std::exchange(other.raw_ptr_, nullptr); x may be other       *)
ArrayPtrMoveAssignAct(x, other) ==
  /\ ~ub /\ handle[x].alive /\ handle[other].alive
  /\ LET exchanged == [handle EXCEPT ![other].raw_ptr_ = NullPtr]
     IN Handled("operator=(ArrayPtr&&)", FALSE,
                [exchanged EXCEPT ![x].raw_ptr_ = handle[other].raw_ptr_],
                heap, given, FALSE)

(* ArrayPtr::swap *)
ArrayPtrSwapAct(x, other) ==
  /\ ~ub /\ handle[x].alive /\ handle[other].alive
  /\ LET tmp == handle[x].raw_ptr_
         first == [handle EXCEPT ![x].raw_ptr_ = handle[other].raw_ptr_]
     IN Handled("ArrayPtr::swap", FALSE, [first EXCEPT ![other].raw_ptr_ = tmp],
                heap, given, FALSE)

(* Release: the address goes to the caller *)
ArrayPtrReleaseAct(x) ==
  /\ ~ub /\ handle[x].alive
  /\ Handled("Release", FALSE, [handle EXCEPT ![x].raw_ptr_ = NullPtr], heap,
             given \cup ({handle[x].raw_ptr_} \ {NullPtr}), FALSE)

(* ~ArrayPtr: delete[] raw_ptr_; deleting an array a second time is        *)
(* undefined behaviour                                                     *)
ArrayPtrDtorAct(x) ==
  /\ ~ub /\ handle[x].alive
  /\ Handled("~ArrayPtr", FALSE,
             [handle EXCEPT ![x] = [alive |-> FALSE, raw_ptr_ |-> NullPtr]],
             ArrayPtrDelete(heap, handle[x].raw_ptr_), given,
             handle[x].raw_ptr_ # NullPtr /\ heap[handle[x].raw_ptr_] = <<>>)

InitArrayPtr == InitObjects /\ caps = Untracked

NextArrayPtr ==
  \/ \E x \in Handles : ArrayPtrDefaultAct(x)
  \/ \E x \in Handles, size \in 0..MaxCap, ok \in BOOLEAN :
        (ok \/ size > 0) /\ ArrayPtrSizeAct(x, size, ok)
  \/ \E x \in Handles : \E raw_ptr \in given \cup {NullPtr} : ArrayPtrAdoptAct(x, raw_ptr)
  \/ \E x \in Handles, other \in Handles : x # other /\ ArrayPtrMoveCtorAct(x, other)
  \/ \E x \in Handles, other \in Handles : ArrayPtrMoveAssignAct(x, other)
  \/ \E x \in Handles, other \in Handles : ArrayPtrSwapAct(x, other)
  \/ \E x \in Handles : ArrayPtrReleaseAct(x)
  \/ \E x \in Handles : ArrayPtrDtorAct(x)

SpecArrayPtr == InitArrayPtr /\ [][NextArrayPtr]_vars

(* ---- the contracts ---- *)

(* object x is constructed and no undefined behaviour has occurred *)
Usable(x) == ~ub /\ vec[x].alive

(* a default-constructed object: empty, no capacity, no array *)
IsEmptyDefault(v) == v.alive /\ v.size_ = 0 /\ v.capacity_ = 0 /\ v.items_ = NullPtr

(* the sequence s with v inserted before its element number index (from 0) *)
InsertedAt(s, index, v) ==
  [i \in 1..(Len(s) + 1) |->
     IF i <= index THEN s[i] ELSE IF i = index + 1 THEN v ELSE s[i - 1]]

(* size, capacity and array of v agree *)
Consistent(v, h) == v.size_ <= v.capacity_ /\ v.capacity_ = BufLen(h, v.items_)

(* x has just been copy-constructed from the other object, whose size,     *)
(* capacity and array agree                                                *)
JustCopied(x) ==
  /\ last.op = "CopyCtor" /\ ~last.threw /\ Usable(x)
  /\ \A y \in Names \ {x} : vec[y].alive /\ Consistent(vec[y], heap)

(* C1: in every state, every constructed Sequence has                      *)
(* 0 <= length <= capacity.                                                *)
SizeWithinCapacity ==
  \A x \in Names :
     vec[x].alive => 0 <= vec[x].size_ /\ vec[x].size_ <= vec[x].capacity_

(* an Insert has left an object with elements and with room to spare *)
InsertLeftRoom ==
  /\ last.op = "Insert" /\ ~last.threw /\ ~ub
  /\ \E x \in Names :
        vec[x].alive /\ 0 < vec[x].size_ /\ vec[x].size_ < vec[x].capacity_

(* C2: copy construction from any Sequence other (here: any whose size,    *)
(* capacity and array agree) yields a Sequence whose array has other.size  *)
(* elements, equal to other's in order, and whose size and capacity both   *)
(* equal other.size.                                                       *)
CopyCtorContract ==
  \A y \in Names :
     (Usable(y) /\ Consistent(vec[y], heap)) =>
       LET r == CopyCtor(vec[y], heap)
       IN /\ ~r.ub
          /\ r.self.size_ = vec[y].size_
          /\ r.self.capacity_ = vec[y].size_
          /\ BufLen(r.heap, r.self.items_) = vec[y].size_
          /\ Elems(r.self, r.heap) = Elems(vec[y], heap)

(* C3: Insert at a position before end (into any Sequence whose size,      *)
(* capacity and array agree) leaves length old + 1, v at index, the former *)
(* elements [index, old) one place up, [0, index) unchanged, and returns   *)
(* the iterator at index, also when the Sequence was full.                 *)
InsertContract ==
  \A x \in Names :
     (Usable(x) /\ Consistent(vec[x], heap)) =>
       \A index \in 0..(vec[x].size_ - 1), v \in Val :
          \A d \in InsertDisplacements(x, index) :
             LET r == Insert(vec[x], heap, index, v, TRUE, d)
             IN /\ ~r.ub
                /\ r.self.size_ = vec[x].size_ + 1
                /\ Elems(r.self, r.heap) = InsertedAt(Elems(vec[x], heap), index, v)
                /\ r.ret = index

(* C4: whenever PushBack, Insert or Resize needs more room than the        *)
(* capacity, the new capacity is max(capacity * 2, required): 1 from 0 and *)
(* 2c from a full c >= 1; five PushBacks onto a default-constructed        *)
(* Sequence pass through the capacities 1, 2, 4, 4, 8.                     *)
GrowthPolicy ==
  /\ \A x \in Names :
        vec[x].alive =>
          LET c == vec[x].capacity_
              sz == vec[x].size_
              doubled == IF c = 0 THEN 1 ELSE 2 * c
          IN /\ sz = c =>
                  /\ \A v \in Val :
                        PushBack(vec[x], heap, v, TRUE).self.capacity_ = doubled
                  /\ \A v \in Val, index \in 0..sz :
                        \A d \in InsertDisplacements(x, index) :
                           Insert(vec[x], heap, index, v, TRUE, d).self.capacity_ = doubled
             /\ \A n \in (c + 1)..(2 * c + 2) :
                   Resize(vec[x], heap, n, TRUE).self.capacity_
                      = (IF 2 * c >= n THEN 2 * c ELSE n)
  /\ caps # Untracked =>
        \A k \in 1..Len(caps) : k <= 5 => caps[k] = <<1, 2, 4, 4, 8>>[k]

(* five PushBacks have been made onto the default-constructed Sequence *)
FivePushBacks == caps # Untracked /\ Len(caps) = 5 /\ last.op = "PushBack"

(* C5: PushBack(v) on any reachable Sequence (here: any just obtained by   *)
(* copy construction) leaves length old + 1, the last element v, the prior *)
(* elements unchanged, capacity >= length, capacity unchanged if there was *)
(* room and larger otherwise, and writes v inside the allocated array.     *)
PushBackContract ==
  \A x \in Names :
     JustCopied(x) =>
       \A v \in Val :
          LET r == PushBack(vec[x], heap, v, TRUE)
          IN /\ ~r.ub
             /\ r.self.size_ = vec[x].size_ + 1
             /\ r.self.size_ <= BufLen(r.heap, r.self.items_)
             /\ Elems(r.self, r.heap) = Append(Elems(vec[x], heap), v)
             /\ r.self.capacity_ >= r.self.size_
             /\ IF vec[x].size_ < vec[x].capacity_
                  THEN r.self.capacity_ = vec[x].capacity_
                  ELSE r.self.capacity_ > vec[x].capacity_

(* C6: move assignment a = move(b) between two distinct Sequences (here:   *)
(* two whose size, capacity and array agree) gives a the size, capacity    *)
(* and array of b and leaves b empty, without capacity and without an      *)
(* array.                                                                  *)
MoveAssignContract ==
  \A x \in Names, y \in Names :
     (/\ x # y /\ Usable(x) /\ Usable(y)
      /\ Consistent(vec[x], heap) /\ Consistent(vec[y], heap)) =>
       LET r == MoveAssign(vec[x], vec[y], heap)
       IN /\ r.self.size_ = vec[y].size_
          /\ r.self.capacity_ = vec[y].capacity_
          /\ r.self.items_ = vec[y].items_
          /\ IsEmptyDefault(r.other)

(* C7: move construction gives the new Sequence the size, the capacity and *)
(* the very array of other, elements untouched, and leaves other empty,    *)
(* without capacity and without an array.                                  *)
MoveCtorContract ==
  \A y \in Names :
     Usable(y) =>
       LET m == MoveCtor(vec[y])
       IN /\ m.self.alive
          /\ m.self.size_ = vec[y].size_
          /\ m.self.capacity_ = vec[y].capacity_
          /\ m.self.items_ = vec[y].items_
          /\ Elems(m.self, heap) = Elems(vec[y], heap)
          /\ IsEmptyDefault(m.other)

(* a move constructor has taken over an array with elements and room *)
MovedFromNonEmpty ==
  /\ last.op = "MoveCtor" /\ ~ub
  /\ \E x \in Names, y \in Names :
        /\ x # y
        /\ vec[x].alive /\ vec[x].size_ > 0 /\ vec[x].capacity_ > vec[x].size_
        /\ BufLen(heap, vec[x].items_) = vec[x].capacity_
        /\ IsEmptyDefault(vec[y])

(* C8: construction from the marker Reserve(c) yields size 0 and capacity  *)
(* exactly c, over an array of c elements.                                 *)
ReserveCtorContract ==
  ~ub =>
    \A c \in 0..MaxCap :
       LET r == ReserveCtor(heap, c, TRUE)
       IN /\ ~r.threw /\ ~r.ub
          /\ r.self.alive
          /\ r.self.size_ = 0
          /\ r.self.capacity_ = c
          /\ BufLen(r.heap, r.self.items_) = c

(* an object has been constructed from a marker with a capacity *)
ReserveConstructed ==
  /\ last.op = "ReserveCtor" /\ ~last.threw /\ ~ub
  /\ \E x \in Names :
        /\ vec[x].alive /\ vec[x].size_ = 0 /\ vec[x].capacity_ = MaxCap
        /\ BufLen(heap, vec[x].items_) = MaxCap

(* C9: when the allocation of a growth step of Resize, PushBack, Insert or *)
(* Reserve fails (here: on a Sequence whose size, capacity and array       *)
(* agree), the Sequence is left unchanged or with size, capacity and array *)
(* that agree.                                                             *)
AllocFailureContract ==
  \A x \in Names :
     (Usable(x) /\ Consistent(vec[x], heap)) =>
       LET Valid(r) == r.threw =>
                         \/ r.self = vec[x] /\ r.heap = heap
                         \/ Consistent(r.self, r.heap)
       IN /\ \A n \in 0..(MaxCap + 1) : Valid(Resize(vec[x], heap, n, FALSE))
          /\ \A n \in 0..(MaxCap + 1) : Valid(Reserve(vec[x], heap, n, FALSE))
          /\ \A v \in Val : Valid(PushBack(vec[x], heap, v, FALSE))
          /\ \A v \in Val, index \in 0..vec[x].size_ :
                \A d \in InsertDisplacements(x, index) :
                   Valid(Insert(vec[x], heap, index, v, FALSE, d))

(* C10: Resize(n) on any Sequence of length L (here: any just obtained by  *)
(* copy construction) leaves length n, the first min(L, n) elements        *)
(* unchanged and Type{} at every index in [L, n).                          *)
ResizeContract ==
  \A x \in Names :
     JustCopied(x) =>
       \A n \in 0..(MaxCap + 1) :
          LET r == Resize(vec[x], heap, n, TRUE)
              old == Elems(vec[x], heap)
          IN /\ ~r.ub
             /\ r.self.size_ = n
             /\ n <= BufLen(r.heap, r.self.items_)
             /\ Elems(r.self, r.heap)
                  = [i \in 1..n |-> IF i <= Len(old) THEN old[i] ELSE Default]

(* the sequence s without its element number index (from 0) *)
ErasedAt(s, index) ==
  [i \in 1..(Len(s) - 1) |-> IF i <= index THEN s[i] ELSE s[i + 1]]

(* C11: Reserve(k) on any Sequence leaves capacity max(old capacity, k),   *)
(* the length and the elements unchanged; with k <= old capacity it        *)
(* changes nothing: the same array, nothing allocated.                     *)
ReserveContract ==
  \A x \in Names :
     Usable(x) =>
       \A k \in 0..(MaxCap + 1) :
          LET r == Reserve(vec[x], heap, k, TRUE)
          IN /\ ~r.ub /\ ~r.threw
             /\ r.self.capacity_ = Max(vec[x].capacity_, k)
             /\ r.self.size_ = vec[x].size_
             /\ Elems(r.self, r.heap) = Elems(vec[x], heap)
             /\ k > vec[x].capacity_ => BufLen(r.heap, r.self.items_) = k
             /\ k <= vec[x].capacity_ => r.self = vec[x] /\ r.heap = heap

(* a Reserve has moved an element other than Type{} into a larger array *)
ReserveMovedElements ==
  /\ last.op = "Reserve" /\ ~last.threw /\ ~ub
  /\ \E x \in Names :
        /\ vec[x].alive /\ 0 < vec[x].size_ /\ vec[x].size_ < vec[x].capacity_
        /\ BufLen(heap, vec[x].items_) = vec[x].capacity_
        /\ \E i \in 1..vec[x].size_ : Elems(vec[x], heap)[i] # Default

(* C12: Erase at index of a Sequence that is not empty leaves length       *)
(* old - 1, the elements [0, index) unchanged, each element formerly at i  *)
(* in [index + 1, old) at i - 1, the capacity unchanged, and returns the   *)
(* iterator at index, which is end() when the last element was erased.     *)
EraseContract ==
  \A x \in Names :
     Usable(x) =>
       \A index \in 0..(vec[x].size_ - 1) :
          LET r == Erase(vec[x], heap, index)
          IN /\ ~r.ub /\ ~r.threw
             /\ r.self.size_ = vec[x].size_ - 1
             /\ Elems(r.self, r.heap) = ErasedAt(Elems(vec[x], heap), index)
             /\ r.self.capacity_ = vec[x].capacity_
             /\ r.self.items_ = vec[x].items_
             /\ r.ret = index
             /\ index = vec[x].size_ - 1 => r.ret = r.self.size_

(* an Erase has left an element other than Type{} in a Sequence *)
ErasedBeforeEnd ==
  /\ last.op = "Erase" /\ ~ub
  /\ \E x \in Names :
        /\ vec[x].alive /\ vec[x].size_ = MaxCap - 1 /\ vec[x].capacity_ = MaxCap
        /\ Elems(vec[x], heap)[vec[x].size_] # Default

(* C13: At(i) throws std::out_of_range exactly when i >= size and          *)
(* otherwise returns the element at index i; either way size, capacity and *)
(* elements are unchanged, and no index in [size, capacity), left over     *)
(* from PopBack, Erase or Clear, is returned.                              *)
AtContract ==
  \A x \in Names :
     Usable(x) =>
       \A i \in 0..(vec[x].capacity_ + 1) :
          LET r == At(vec[x], heap, i)
          IN /\ r.threw <=> i >= vec[x].size_
             /\ ~r.threw => ~r.ub /\ r.ret = Elems(vec[x], heap)[i + 1]
             /\ r.self = vec[x] /\ r.heap = heap

(* At has thrown on a Sequence whose array holds a left-over element other *)
(* than Type{} at index size                                               *)
AtRefusedLeftOver ==
  /\ last.op = "At" /\ last.threw /\ ~ub
  /\ \E x \in Names :
        /\ vec[x].alive /\ vec[x].size_ < vec[x].capacity_
        /\ vec[x].size_ < BufLen(heap, vec[x].items_)
        /\ Load(heap, vec[x].items_, vec[x].size_) # Default

(* x and y are the two Sequences of a copy construction or copy assignment *)
(* that has just completed, made from a Sequence whose size, capacity and  *)
(* array agree                                                             *)
JustCopiedPair(x, y) ==
  /\ x # y /\ Usable(x) /\ Usable(y)
  /\ last.op \in {"CopyCtor", "CopyAssign"} /\ ~last.threw
  /\ Consistent(vec[x], heap) \/ Consistent(vec[y], heap)

(* the result r of a mutator of one Sequence has left the Sequence y as it *)
(* was                                                                     *)
Untouched(r, y) ==
  /\ ~r.ub
  /\ BufLen(r.heap, vec[y].items_) = BufLen(heap, vec[y].items_)
  /\ Elems(vec[y], r.heap) = Elems(vec[y], heap)

(* C14: a copy made by copy construction or copy assignment compares equal *)
(* to the original and shares no array with it, and any mutator applied to *)
(* one of the two (an element write, PushBack, Insert, Erase, Resize,      *)
(* Reserve, Clear) leaves the length, capacity and elements of the other   *)
(* unchanged.                                                              *)
CopyIndependence ==
  \A x \in Names, y \in Names :
     JustCopiedPair(x, y) =>
       /\ Equal(vec[x], vec[y], heap)
       /\ vec[x].items_ = NullPtr \/ vec[x].items_ # vec[y].items_
       /\ \A v \in Val :
             /\ \A i \in 0..(vec[x].size_ - 1) :
                   Untouched(IndexAssign(vec[x], heap, i, v), y)
             /\ Untouched(PushBack(vec[x], heap, v, TRUE), y)
             /\ \A i \in 0..vec[x].size_ :
                   \A d \in InsertDisplacements(x, i) :
                      Untouched(Insert(vec[x], heap, i, v, TRUE, d), y)
       /\ \A i \in 0..(vec[x].size_ - 1) : Untouched(Erase(vec[x], heap, i), y)
       /\ \A n \in 0..(MaxCap + 1) :
             /\ Untouched(Resize(vec[x], heap, n, TRUE), y)
             /\ Untouched(Reserve(vec[x], heap, n, TRUE), y)
       /\ Untouched(Clear(vec[x], heap), y)

(* s lexicographically precedes t: they agree on their first k elements    *)
(* and then s has ended while t has not, or s has the smaller element      *)
Precedes(s, t) ==
  \E k \in 0..Len(s) :
     /\ k <= Len(t)
     /\ \A i \in 1..k : s[i] = t[i]
     /\ \/ k = Len(s) /\ k < Len(t)
        \/ k < Len(s) /\ k < Len(t) /\ s[k + 1] < t[k + 1]

(* C15: for all Sequences a and b of integers: a == b iff they have the    *)
(* same length and equal elements; a < b iff a lexicographically precedes  *)
(* b, a proper prefix being less; exactly one of a < b, a == b, a > b      *)
(* holds; and !=, <=, >, >= are !(a == b), !(b < a), b < a, !(a < b).      *)
ComparisonContract ==
  \A x \in Names, y \in Names :
     (Usable(x) /\ Usable(y)) =>
       LET a == vec[x]
           b == vec[y]
           s == Elems(a, heap)
           t == Elems(b, heap)
           lt == Less(a, b, heap)
           eq == Equal(a, b, heap)
           gt == Greater(a, b, heap)
       IN /\ eq <=> (Len(s) = Len(t) /\ \A i \in 1..Len(s) : s[i] = t[i])
          /\ lt <=> Precedes(s, t)
          /\ (lt /\ ~eq /\ ~gt) \/ (~lt /\ eq /\ ~gt) \/ (~lt /\ ~eq /\ gt)
          /\ NotEqual(a, b, heap) <=> ~eq
          /\ LessEq(a, b, heap) <=> ~Less(b, a, heap)
          /\ gt <=> Less(b, a, heap)
          /\ GreaterEq(a, b, heap) <=> ~lt

(* a Sequence has been compared with one it is a proper prefix of *)
ComparedWithPrefix ==
  /\ last.op = "Compare" /\ ~ub
  /\ \E x \in Names, y \in Names :
        /\ vec[x].alive /\ vec[y].alive
        /\ 0 < vec[x].size_ /\ vec[x].size_ < vec[y].size_
        /\ \A i \in 1..vec[x].size_ : Elems(vec[x], heap)[i] = Elems(vec[y], heap)[i]
        /\ Less(vec[x], vec[y], heap) /\ Greater(vec[y], vec[x], heap)

(* the result r of an operation on the Sequence v has kept the capacity    *)
(* and the array of v                                                      *)
KeptCapacity(r, v) ==
  /\ r.self.capacity_ = v.capacity_
  /\ r.self.items_ = v.items_
  /\ BufLen(r.heap, r.self.items_) = BufLen(heap, v.items_)

(* C16: no Clear, PopBack, Erase, Resize, Reserve, PushBack or Insert      *)
(* lowers the capacity member of a Sequence; Clear sets the length to 0    *)
(* and, like PopBack, Erase and a Resize to a smaller length, leaves the   *)
(* capacity and the array owned as they were.                              *)
CapacityNeverDecreases ==
  \A x \in Names :
     Usable(x) =>
       LET v == vec[x]
       IN /\ Clear(v, heap).self.size_ = 0 /\ KeptCapacity(Clear(v, heap), v)
          /\ v.size_ > 0 => KeptCapacity(PopBack(v, heap), v)
          /\ \A i \in 0..(v.size_ - 1) : KeptCapacity(Erase(v, heap, i), v)
          /\ \A n \in 0..v.size_ : KeptCapacity(Resize(v, heap, n, TRUE), v)
          /\ \A ok \in BOOLEAN :
                /\ \A n \in 0..(MaxCap + 1) :
                      /\ Resize(v, heap, n, ok).self.capacity_ >= v.capacity_
                      /\ Reserve(v, heap, n, ok).self.capacity_ >= v.capacity_
                /\ \A e \in Val :
                      /\ PushBack(v, heap, e, ok).self.capacity_ >= v.capacity_
                      /\ \A i \in 0..v.size_ :
                            \A d \in InsertDisplacements(x, i) :
                               Insert(v, heap, i, e, ok, d).self.capacity_ >= v.capacity_

(* a Clear has emptied a Sequence that keeps its capacity and its array *)
ClearedWithCapacity ==
  /\ last.op = "Clear" /\ ~ub
  /\ \E x \in Names :
        /\ vec[x].alive /\ vec[x].size_ = 0 /\ vec[x].capacity_ = MaxCap
        /\ BufLen(heap, vec[x].items_) = MaxCap

(* C17: Insert at any position of any Sequence (here: any whose size,      *)
(* capacity and array agree) followed by Erase at the position Insert      *)
(* returned restores the length and the elements, whether or not Insert    *)
(* reallocated.                                                            *)
InsertEraseRoundTrip ==
  \A x \in Names :
     (Usable(x) /\ Consistent(vec[x], heap)) =>
       \A index \in 0..vec[x].size_, v \in Val :
          \A d \in InsertDisplacements(x, index) :
             LET r == Insert(vec[x], heap, index, v, TRUE, d)
                 e == Erase(r.self, r.heap, r.ret)
             IN /\ ~r.ub /\ ~e.ub
                /\ e.self.size_ = vec[x].size_
                /\ Elems(e.self, e.heap) = Elems(vec[x], heap)

(* C18: in every state every Sequence owns an array of exactly capacity    *)
(* elements, and none when the capacity is 0.                              *)
BufferMatchesCapacity ==
  \A x \in Names :
     Usable(x) =>
       /\ BufLen(heap, vec[x].items_) = vec[x].capacity_
       /\ vec[x].capacity_ = 0 => vec[x].items_ = NullPtr

(* the ArrayPtr objects that own the array at address p *)
Owners(p) == {x \in Handles : handle[x].alive /\ handle[x].raw_ptr_ = p}

(* C19: after any sequence of ArrayPtr operations (construction with a     *)
(* size or from a raw pointer, move construction, move assignment onto an  *)
(* empty or a non-empty object, swap, Release, destruction) no array has   *)
(* been deleted twice, every array that Release has not handed out is      *)
(* owned by exactly one ArrayPtr, and every non-null raw_ptr_ refers to an *)
(* array that has not been deleted.                                        *)
ExclusiveOwnership ==
  /\ ~ub
  /\ \A p \in DOMAIN heap :
        (heap[p] # <<>> /\ p \notin given) => Cardinality(Owners(p)) = 1
  /\ \A x \in Handles :
        (handle[x].alive /\ handle[x].raw_ptr_ # NullPtr) => heap[handle[x].raw_ptr_] # <<>>

(* C20: the assertion of operator[] passes exactly for the indices below   *)
(* size (here: of a Sequence whose size, capacity and array agree), every  *)
(* access that passes it reads a live element inside the array, and index  *)
(* size is rejected, also when size equals capacity.                       *)
IndexAssertionContract ==
  \A x \in Names :
     (Usable(x) /\ Consistent(vec[x], heap)) =>
       \A i \in 0..(vec[x].capacity_ + 1) :
          /\ IndexAsserted(vec[x], i) <=> i < vec[x].size_
          /\ IndexAsserted(vec[x], i) =>
                /\ ~Index(vec[x], heap, i).ub
                /\ ~IndexAssign(vec[x], heap, i, Default).ub

====
